---- MODULE Spec2Model ----
(***************************************************************************)
(* MultipleTrueFalseMemoryNetworkSolver                                    *)
(* (deep_qa/solvers/with_memory/multiple_true_false_memory_network.py).    *)
(*                                                                         *)
(* Two parts of the solver are modelled:                                   *)
(*   - the shape bookkeeping (_get_max_lengths, _set_max_lengths,          *)
(*     _set_max_lengths_from_model), specification SpecShape;              *)
(*   - the debug report writer (_handle_debug_output), specification       *)
(*     SpecDebug.                                                          *)
(* Python's 0-based indices are kept through At(seq, i).                   *)
(***************************************************************************)
EXTENDS Integers, Sequences, FiniteSets

VARIABLES
    max_sentence_length,   \* self.max_sentence_length
    max_knowledge_length,  \* self.max_knowledge_length
    num_options,           \* self.num_options
    op,                    \* the method called last ("init" before any call)
    arg_lengths,           \* the max_lengths dict, when the latest call that assigns fields was _set_max_lengths
    arg_model,             \* the model's get_input_shape_at(0), when that call was _set_max_lengths_from_model
    returned,              \* the dict returned by the last _get_max_lengths call
    err,                   \* the exception the last call raised ("none" when it returned)
    dataset,               \* the debug dataset: a sequence of question instances
    layer_names,           \* the debug layer names, a sequence of names (character sequences)
    epoch,                 \* the epoch argument of the last _handle_debug_output call (0 before any)
    files,                 \* the epochs e whose file {model_prefix}_debug_{e}.txt exists
    report,                \* the lines written to the file opened by the last call
    handle_open            \* TRUE when the file object opened by the last call was not closed

shape_vars == <<max_sentence_length, max_knowledge_length, num_options,
                op, arg_lengths, arg_model, returned, err>>
debug_vars == <<dataset, layer_names, epoch, files, report, handle_open>>
vars == <<shape_vars, debug_vars>>

(***************************************************************************)
(* Bounds.                                                                 *)
(***************************************************************************)
MaxDim == 2          \* sizes of tensor axes and dict values: 1..MaxDim
MaxRank == 4         \* question inputs have rank 2..MaxRank, background inputs 2..MaxRank+1

\* Python's None for the three shape fields, whose proper values are positive.
None == 0

Dims == 1..MaxDim

\* seq[i] with Python's 0-based index.
At(seq, i) == seq[i + 1]

(***************************************************************************)
(* Shape bookkeeping.                                                      *)
(***************************************************************************)
Keys == {"word_sequence_length", "background_sentences", "num_options"}

\* A dict whose keys are some of Keys and whose values are positive sizes.
LengthDicts == UNION {[S -> Dims] : S \in SUBSET Keys}

EmptyDict == [k \in {} |-> None]

\* The input shapes of a model built for k options, sentences of w words and
\* b background sentences: question (batch, k, w), background (batch, k, b, w).
ExpectedShape(k, w, b) == << <<None, k, w>>, <<None, k, b, w>> >>

\* A shape tuple cut to rank r, or extended to it by trailing axes of size MaxDim.
Resize(shape, r) ==
    IF r <= Len(shape) THEN SubSeq(shape, 1, r)
    ELSE shape \o [i \in 1..(r - Len(shape)) |-> MaxDim]

\* get_input_shape_at(0) of a two-input model: [question shape, background
\* shape], of the expected layout or with inputs of other ranks.
ModelShapes ==
    {<<Resize(At(ExpectedShape(k, w, b), 0), rq), Resize(At(ExpectedShape(k, w, b), 1), rb)>> :
        <<k, w, b, rq, rb>> \in Dims \X Dims \X Dims \X (2..MaxRank) \X (2..(MaxRank + 1))}

Fields(msl, mkl, no, e) ==
    [max_sentence_length |-> msl, max_knowledge_length |-> mkl,
     num_options |-> no, err |-> e]

\* _get_max_lengths: the dict built from the three fields.
get_max_lengths_result(msl, mkl, no) ==
    [k \in Keys |->
        IF k = "word_sequence_length" THEN msl
        ELSE IF k = "background_sentences" THEN mkl
        ELSE no]

\* _set_max_lengths with the values of 'background_sentences' and 'num_options'
\* assigned to each other's field.
set_max_lengths_result_swapped(msl, mkl, no, max_lengths) ==
    IF Keys \subseteq DOMAIN max_lengths
    THEN Fields(max_lengths["word_sequence_length"], max_lengths["num_options"],
                max_lengths["background_sentences"], "none")
    ELSE Fields(msl, mkl, no, "KeyError")

\* _set_max_lengths: three assignments in order; a missing key raises KeyError
\* at its assignment, the earlier assignments having been made.
set_max_lengths_result(msl, mkl, no, max_lengths) ==
    IF "word_sequence_length" \notin DOMAIN max_lengths
    THEN Fields(msl, mkl, no, "KeyError")
    ELSE IF "background_sentences" \notin DOMAIN max_lengths
    THEN Fields(max_lengths["word_sequence_length"], mkl, no, "KeyError")
    ELSE IF "num_options" \notin DOMAIN max_lengths
    THEN Fields(max_lengths["word_sequence_length"],
                max_lengths["background_sentences"], no, "KeyError")
    ELSE Fields(max_lengths["word_sequence_length"],
                max_lengths["background_sentences"],
                max_lengths["num_options"], "none")

\* _set_max_lengths_from_model reading the background count at shape[1][1].
set_max_lengths_from_model_result_axis1(msl, mkl, no, shape) ==
    IF Len(At(shape, 0)) <= 2
    THEN Fields(msl, mkl, no, "IndexError")
    ELSE Fields(At(At(shape, 0), 2), At(At(shape, 1), 1), At(At(shape, 0), 1), "none")

\* _set_max_lengths_from_model: shape[0][2], shape[1][2], shape[0][1] in this
\* order; an index past the end of a shape tuple raises IndexError at its
\* assignment. Every shape here has rank >= 2, so shape[0][1] exists.
set_max_lengths_from_model_result(msl, mkl, no, shape) ==
    IF Len(At(shape, 0)) <= 2
    THEN Fields(msl, mkl, no, "IndexError")
    ELSE IF Len(At(shape, 1)) <= 2
    THEN Fields(At(At(shape, 0), 2), mkl, no, "IndexError")
    ELSE Fields(At(At(shape, 0), 2), At(At(shape, 1), 2), At(At(shape, 0), 1), "none")

get_max_lengths ==
    /\ op' = "get_max_lengths"
    /\ returned' = get_max_lengths_result(max_sentence_length, max_knowledge_length,
                                          num_options)
    /\ err' = "none"
    /\ UNCHANGED <<arg_lengths, arg_model>>
    /\ UNCHANGED <<max_sentence_length, max_knowledge_length, num_options>>
    /\ UNCHANGED debug_vars

set_max_lengths(max_lengths) ==
    LET r == set_max_lengths_result(max_sentence_length, max_knowledge_length,
                                    num_options, max_lengths)
    IN  /\ op' = "set_max_lengths"
        /\ arg_lengths' = max_lengths
        /\ arg_model' = <<>>
        /\ max_sentence_length' = r.max_sentence_length
        /\ max_knowledge_length' = r.max_knowledge_length
        /\ num_options' = r.num_options
        /\ err' = r.err
        /\ returned' = EmptyDict
        /\ UNCHANGED debug_vars

set_max_lengths_from_model(shape) ==
    LET r == set_max_lengths_from_model_result(max_sentence_length,
                                               max_knowledge_length, num_options, shape)
    IN  /\ op' = "set_max_lengths_from_model"
        /\ arg_model' = shape
        /\ arg_lengths' = EmptyDict
        /\ max_sentence_length' = r.max_sentence_length
        /\ max_knowledge_length' = r.max_knowledge_length
        /\ num_options' = r.num_options
        /\ err' = r.err
        /\ returned' = EmptyDict
        /\ UNCHANGED debug_vars

\* After __init__: num_options is None; the two lengths are whatever the
\* superclass constructor took from params (None when absent).
InitShape ==
    /\ max_sentence_length \in {None} \cup Dims
    /\ max_knowledge_length \in {None} \cup Dims
    /\ num_options = None
    /\ op = "init"
    /\ arg_lengths = EmptyDict
    /\ arg_model = <<>>
    /\ returned = EmptyDict
    /\ err = "none"
    /\ dataset = <<>>
    /\ layer_names = <<>>
    /\ epoch = 0
    /\ files = {}
    /\ report = <<>>
    /\ handle_open = FALSE

NextShape ==
    \/ get_max_lengths
    \/ \E max_lengths \in LengthDicts : set_max_lengths(max_lengths)
    \/ \E shape \in ModelShapes : set_max_lengths_from_model(shape)

SpecShape == InitShape /\ [][NextShape]_vars

(***************************************************************************)
(* The debug report (_handle_debug_output).                                *)
(*                                                                         *)
(* A layer name is the sequence of its characters.  A number is held in    *)
(* millionths (0.25 is 250000); "%.4f" is Fmt4.  A line of the report is a *)
(* tuple: its fixed text first, then the values printed into it.           *)
(***************************************************************************)
MaxInstances == 2    \* the debug dataset holds 0..MaxInstances question instances
MaxBackground == 3   \* an option has 0..MaxBackground background sentences
MaxLayers == 3       \* 0..MaxLayers debug layers are named
MaxEpoch == 2        \* _handle_debug_output is called for epochs 1..MaxEpoch

\* 'softmax'
Softmax ==
    <<"s", "o", "f", "t", "m", "a", "x">>

\* 'knowledge_selector'
KnowledgeSelector ==
    <<"k", "n", "o", "w", "l", "e", "d", "g", "e", "_", "s", "e", "l", "e", "c", "t", "o", "r">>

\* 'entailment_scorer'
EntailmentScorer ==
    <<"e", "n", "t", "a", "i", "l", "m", "e", "n", "t", "_", "s", "c", "o", "r", "e", "r">>

\* 'final_softmax'
FinalSoftmax ==
    <<"f", "i", "n", "a", "l", "_", "s", "o", "f", "t", "m", "a", "x">>

\* 'timedist_knowledge_selector_0'
TimedistKnowledgeSelector0 ==
    <<"t", "i", "m", "e", "d", "i", "s", "t", "_", "k", "n", "o", "w", "l", "e", "d", "g", "e",
    "_", "s", "e", "l", "e", "c", "t", "o", "r", "_", "0">>

\* 'timedist_knowledge_selector_1'
TimedistKnowledgeSelector1 ==
    <<"t", "i", "m", "e", "d", "i", "s", "t", "_", "k", "n", "o", "w", "l", "e", "d", "g", "e",
    "_", "s", "e", "l", "e", "c", "t", "o", "r", "_", "1">>

\* 'knowledge_selector_softmax'
KnowledgeSelectorSoftmax ==
    <<"k", "n", "o", "w", "l", "e", "d", "g", "e", "_", "s", "e", "l", "e", "c", "t", "o", "r",
    "_", "s", "o", "f", "t", "m", "a", "x">>

\* 'timedist_entailment_scorer'
TimedistEntailmentScorer ==
    <<"t", "i", "m", "e", "d", "i", "s", "t", "_", "e", "n", "t", "a", "i", "l", "m", "e", "n",
    "t", "_", "s", "c", "o", "r", "e", "r">>


\* The layers a debug run may name.
LayerCatalogue ==
    {FinalSoftmax, TimedistKnowledgeSelector0, TimedistKnowledgeSelector1,
     EntailmentScorer, KnowledgeSelectorSoftmax, TimedistEntailmentScorer}

\* Layer names are unique within a model: sequences without repetition.
LayerNameLists ==
    UNION {{s \in [1..n -> LayerCatalogue] : \A i, j \in 1..n : s[i] = s[j] => i = j} :
           n \in 0..MaxLayers}

\* str.endswith
EndsWith(s, suffix) ==
    /\ Len(suffix) <= Len(s)
    /\ SubSeq(s, Len(s) - Len(suffix) + 1, Len(s)) = suffix

\* the substring test "sub in s"
Contains(s, sub) ==
    \E start \in 1..(Len(s) - Len(sub) + 1) : SubSeq(s, start, start + Len(sub) - 1) = sub

\* The branch of the if/elif chain of the first loop a layer name takes.
Role(layer_name) ==
    IF EndsWith(layer_name, Softmax) THEN "scores"
    ELSE IF Contains(layer_name, KnowledgeSelector) THEN "attention"
    ELSE IF layer_name = EntailmentScorer THEN "entailment"
    ELSE "ignored"

\* "%.4f" % (v / 1000000) cut down instead of rounded.
Fmt4Truncated(v) == <<(v \div 100) \div 10000, (v \div 100) % 10000>>

\* "%.4f" % (v / 1000000) for v >= 0: the integer part and the four decimals,
\* rounded to the nearest ten-thousandth (no value used here is a tie).
Fmt4(v) == <<((v + 50) \div 100) \div 10000, ((v + 50) \div 100) % 10000>>

\* The number a network evaluated at epoch e puts at [instance][option][position]
\* of the output of its layer number i (0-based), in millionths.  Distinct
\* places get numbers that differ in their first four decimals; the last two
\* digits are 49 or 51, so that rounding goes both ways.
Value(e, i, instance, option, position) ==
    LET place == 1 + position + (MaxDim + 1) * (option + (MaxDim + 1) *
                     (instance + (MaxInstances + 1) * (i + (MaxLayers + 1) * (e - 1))))
    IN  200 * place + (IF (place + e) % 2 = 0 THEN 49 ELSE 51)

\* The rank of a layer's output: the attention layers give
\* [instance][option][background position]; the others, among them a layer
\* whose name merely ends in 'softmax', give [instance][option].
OutputRank(layer_name) ==
    IF layer_name \in {TimedistKnowledgeSelector0, TimedistKnowledgeSelector1} THEN 3 ELSE 2

\* The output of layer number i (0-based) for a batch of n instances of k
\* options, background padded to `padded` sentences.
LayerOutput(e, i, layer_name, n, k, padded) ==
    IF OutputRank(layer_name) = 3
    THEN [a \in 1..n |-> [b \in 1..k |-> [c \in 1..padded |-> Value(e, i, a - 1, b - 1, c - 1)]]]
    ELSE [a \in 1..n |-> [b \in 1..k |-> Value(e, i, a - 1, b - 1, 0)]]

\* The outputs argument: one output per debug layer, aligned with the dataset
\* and with the shape fields of the solver.
Outputs(e, names, n, k, padded) ==
    [x \in 1..Len(names) |-> LayerOutput(e, x - 1, names[x], n, k, padded)]

\* The debug datasets: n instances of k options; option j of instance i has
\* (base + i + j) mod (MaxBackground + 1) background sentences, and the label
\* of instance i is (base + i) mod k.  Texts are told apart by their place.
Option(base, i, j) ==
    [text |-> <<"option", i, j>>,
     background |-> [x \in 1..((base + i + j) % (MaxBackground + 1)) |->
                        <<"background", i, j, x - 1>>]]

Instance(base, i, k) ==
    [label |-> (base + i) % k,
     options |-> [y \in 1..k |-> Option(base, i, y - 1)]]

Dataset(base, n, k) == [x \in 1..n |-> Instance(base, x - 1, k)]

\* The state of the first loop (lines 115-124): the three collected outputs.
NoOutputs ==
    [has_scores |-> FALSE, scores |-> <<>>, attention |-> <<>>,
     has_entailment |-> FALSE, entailment |-> <<>>]

\* The first loop keeping the first 'softmax' output it meets.
RECURSIVE CollectFirstSoftmax(_, _, _, _)
CollectFirstSoftmax(names, outs, i, acc) ==
    IF i >= Len(names) THEN acc
    ELSE LET role == Role(At(names, i))
             nxt == IF role = "scores" /\ ~acc.has_scores
                        THEN [acc EXCEPT !.has_scores = TRUE, !.scores = At(outs, i)]
                    ELSE IF role = "attention"
                        THEN [acc EXCEPT !.attention = Append(@, At(outs, i))]
                    ELSE IF role = "entailment"
                        THEN [acc EXCEPT !.has_entailment = TRUE, !.entailment = At(outs, i)]
                    ELSE acc
         IN  CollectFirstSoftmax(names, outs, i + 1, nxt)

\* The first loop (lines 118-124) from index i on: a later 'softmax' or
\* 'entailment_scorer' output replaces an earlier one, attention outputs are
\* appended in the order met.
RECURSIVE Collect(_, _, _, _)
Collect(names, outs, i, acc) ==
    IF i >= Len(names) THEN acc
    ELSE LET role == Role(At(names, i))
             nxt == IF role = "scores"
                        THEN [acc EXCEPT !.has_scores = TRUE, !.scores = At(outs, i)]
                    ELSE IF role = "attention"
                        THEN [acc EXCEPT !.attention = Append(@, At(outs, i))]
                    ELSE IF role = "entailment"
                        THEN [acc EXCEPT !.has_entailment = TRUE, !.entailment = At(outs, i)]
                    ELSE acc
         IN  Collect(names, outs, i + 1, nxt)

\* values[-n:] taken as values[:n].
StripPaddingFront(values, n) ==
    IF n >= Len(values) THEN values ELSE SubSeq(values, 1, n)

\* values[-n:] (line 142): the last n values; all of them when n is 0 (the
\* slice [-0:] is [0:]) or n is at least their number.
StripPadding(values, n) ==
    IF n = 0 \/ n >= Len(values) THEN values
    ELSE SubSeq(values, Len(values) - n + 1, Len(values))

\* The loop of lines 150-157 from index i on: one line per background
\* sentence, stopping at the first index the weights do not reach.
RECURSIVE WeightLines(_, _, _)
WeightLines(option_attention_values, option_background_info, i) ==
    IF i >= Len(option_background_info) THEN <<>>
    ELSE IF i >= Len(At(option_attention_values, 0)) THEN <<>>
    ELSE << <<"weights",
              [h \in 1..Len(option_attention_values) |->
                  Fmt4(At(option_attention_values[h], i))],
              At(option_background_info, i)>> >>
         \o WeightLines(option_attention_values, option_background_info, i + 1)

\* The lines of one option (lines 136-158).
OptionLines(acc, instance_index, option_id, option_instance) ==
    LET option_background_info == option_instance.background
        option_score == At(At(acc.scores, instance_index), option_id)
        option_attention_values ==
            [h \in 1..Len(acc.attention) |->
                StripPadding(At(At(acc.attention[h], instance_index), option_id),
                             Len(option_background_info))]
    IN  << <<"Option", option_id, option_instance.text>>,
           <<"Assigned score", Fmt4(option_score)>> >>
        \o (IF acc.has_entailment
            THEN << <<"Entailment score",
                      Fmt4(At(At(acc.entailment, instance_index), option_id))>> >>
            ELSE <<>>)
        \o << <<"Weights on background">> >>
        \o WeightLines(option_attention_values, option_background_info, 0)
        \o << <<"">> >>

\* The loop over the options of one instance (line 135) from option_id on.
RECURSIVE OptionsLines(_, _, _, _)
OptionsLines(acc, instance_index, options, option_id) ==
    IF option_id >= Len(options) THEN <<>>
    ELSE OptionLines(acc, instance_index, option_id, At(options, option_id))
         \o OptionsLines(acc, instance_index, options, option_id + 1)

\* The loop over the instances (line 128) from instance_index on.
RECURSIVE InstancesLines(_, _, _)
InstancesLines(acc, instances, instance_index) ==
    IF instance_index >= Len(instances) THEN <<>>
    ELSE << <<"Correct answer", At(instances, instance_index).label>> >>
         \o OptionsLines(acc, instance_index, At(instances, instance_index).options, 0)
         \o InstancesLines(acc, instances, instance_index + 1)

\* _handle_debug_output: the file is opened (created or emptied) first; the
\* two assertions follow, and raise with the file open and empty; otherwise
\* the report is written and the file closed.
handle_debug_output_result(data, names, outs) ==
    LET acc == Collect(names, outs, 0, NoOutputs)
    IN  IF ~acc.has_scores \/ Len(acc.attention) = 0
        THEN [err |-> "AssertionError", report |-> <<>>, handle_open |-> TRUE]
        ELSE [err |-> "none", report |-> InstancesLines(acc, data, 0),
              handle_open |-> FALSE]

\* The outputs argument of the call for epoch e.
OutputsAt(e) ==
    Outputs(e, layer_names, Len(dataset), num_options, max_knowledge_length)

\* One call per epoch, with that epoch's outputs; an exception ends the run.
handle_debug_output ==
    /\ epoch < MaxEpoch
    /\ err = "none"
    /\ \E r \in {handle_debug_output_result(dataset, layer_names, OutputsAt(epoch + 1))} :
           /\ epoch' = epoch + 1
           /\ files' = files \cup {epoch + 1}
           /\ report' = r.report
           /\ handle_open' = r.handle_open
           /\ err' = r.err
    /\ op' = "handle_debug_output"
    /\ UNCHANGED <<dataset, layer_names>>
    /\ UNCHANGED <<max_sentence_length, max_knowledge_length, num_options,
                   arg_lengths, arg_model, returned>>

\* A solver set up for debugging: the shape fields are set, num_options being
\* the number of options of every instance of the debug dataset, and the
\* debug layers are named.
InitDebug ==
    /\ max_sentence_length = MaxDim
    /\ max_knowledge_length \in Dims
    /\ num_options \in Dims
    /\ op = "init"
    /\ arg_lengths = EmptyDict
    /\ arg_model = <<>>
    /\ returned = EmptyDict
    /\ err = "none"
    /\ \E base \in 0..MaxBackground, n \in 0..MaxInstances :
           dataset = Dataset(base, n, num_options)
    /\ layer_names \in LayerNameLists
    /\ epoch = 0
    /\ files = {}
    /\ report = <<>>
    /\ handle_open = FALSE

NextDebug == handle_debug_output

SpecDebug == InitDebug /\ [][NextDebug]_vars

(***************************************************************************)
(* Properties of the shape bookkeeping (checked under SpecShape).          *)
(***************************************************************************)
\* The loaded model has the expected layout: a question input of rank 3 and a
\* background input of rank 4.
ExpectedLayout(shape) == Len(At(shape, 0)) = 3 /\ Len(At(shape, 1)) = 4

Last(seq) == seq[Len(seq)]
LastButOne(seq) == seq[Len(seq) - 1]

\* C1: _get_max_lengths called after a _set_max_lengths that was given all
\* three keys (no other assigning call in between) returns the very mapping
\* that was set, whatever the fields held before.
C1_SetThenGet ==
    (op = "get_max_lengths" /\ DOMAIN arg_lengths = Keys) => returned = arg_lengths

C1_Witness ==
    /\ op = "get_max_lengths"
    /\ DOMAIN arg_lengths = Keys
    /\ arg_lengths["background_sentences"] # arg_lengths["num_options"]
    /\ arg_lengths["word_sequence_length"] # arg_lengths["background_sentences"]
    /\ returned["num_options"] = arg_lengths["num_options"]

\* C2: from a model of the expected layout, question (batch, k, w) and
\* background (batch, k, b, w), _set_max_lengths_from_model sets num_options to
\* k, max_sentence_length to w and max_knowledge_length to b, and a following
\* _get_max_lengths returns exactly these.
C2_FromModel ==
    /\ (op = "set_max_lengths_from_model" /\ ExpectedLayout(arg_model))
          => /\ err = "none"
             /\ num_options = At(At(arg_model, 0), 1)
             /\ max_sentence_length = Last(At(arg_model, 0))
             /\ max_knowledge_length = LastButOne(At(arg_model, 1))
    /\ (op = "get_max_lengths" /\ arg_model # <<>> /\ ExpectedLayout(arg_model))
          => /\ returned["word_sequence_length"] = Last(At(arg_model, 0))
             /\ returned["background_sentences"] = LastButOne(At(arg_model, 1))
             /\ returned["num_options"] = At(At(arg_model, 0), 1)

C2_Witness ==
    /\ op = "get_max_lengths" /\ arg_model # <<>>
    /\ ExpectedLayout(arg_model)
    /\ At(At(arg_model, 1), 1) # At(At(arg_model, 1), 2)
    /\ At(At(arg_model, 1), 2) # At(At(arg_model, 1), 3)
    /\ returned["background_sentences"] = At(At(arg_model, 1), 2)

\* C3 (as claimed): _set_max_lengths_from_model fails whenever the model's
\* input signature is not of the expected layout.
C3_Claim ==
    (op = "set_max_lengths_from_model" /\ ~ExpectedLayout(arg_model)) => err # "none"

\* C8 (as claimed): a _set_max_lengths call whose mapping lacks a key fails and
\* leaves the three fields as they were; a call with all three keys assigns
\* each value verbatim.
C8_Claim ==
    [][op' = "set_max_lengths"
       => IF DOMAIN arg_lengths' = Keys
          THEN /\ err' = "none"
               /\ max_sentence_length' = arg_lengths'["word_sequence_length"]
               /\ max_knowledge_length' = arg_lengths'["background_sentences"]
               /\ num_options' = arg_lengths'["num_options"]
          ELSE /\ err' # "none"
               /\ UNCHANGED <<max_sentence_length, max_knowledge_length, num_options>>]_vars

(***************************************************************************)
(* Properties of the debug report (checked under SpecDebug).               *)
(***************************************************************************)
Called == op = "handle_debug_output"
CalledOK == Called /\ err = "none"

\* The roles as the report's reader understands the names.
IsScoreName(n) == EndsWith(n, Softmax)
IsHopName(n) == ~EndsWith(n, Softmax) /\ Contains(n, KnowledgeSelector)
IsEntailmentName(n) ==
    ~EndsWith(n, Softmax) /\ ~Contains(n, KnowledgeSelector) /\ n = EntailmentScorer

ScoreLayers == {x \in 1..Len(layer_names) : IsScoreName(layer_names[x])}
HopLayers == {x \in 1..Len(layer_names) : IsHopName(layer_names[x])}
EntailmentLayers == {x \in 1..Len(layer_names) : IsEntailmentName(layer_names[x])}

Max(S) == CHOOSE x \in S : \A y \in S : y <= x
Min2(a, b) == IF a <= b THEN a ELSE b

\* The i-th smallest member of a set of numbers (i from 1).
Nth(S, i) == CHOOSE x \in S : Cardinality({y \in S : y < x}) = i - 1

\* f is number v (in millionths) written with four decimals: within half a
\* ten-thousandth of it.
IsFmt4(f, v) ==
    /\ f[2] \in 0..9999
    /\ 100 * (10000 * f[1] + f[2]) - v <= 50
    /\ v - 100 * (10000 * f[1] + f[2]) <= 50

LinesOf(kind) == {p \in 1..Len(report) : report[p][1] = kind}

\* The places of the lines of a kind, in increasing order.
PlacesOf(kind) ==
    [x \in 1..Cardinality(LinesOf(kind)) |-> Nth(LinesOf(kind), x)]

\* The hop layers in the order of layer_names.
HopSeq == [h \in 1..Cardinality(HopLayers) |-> Nth(HopLayers, h)]

\* In the list `options` of the places of the 'Option' lines, the index of the
\* line that opens the sub-block of option j of instance i (both from 1).
SubBlock(i, j) == (i - 1) * num_options + j

\* C4 (as claimed): a call given no name for the final score, or none for an
\* attention selector, fails and leaves no report file for its epoch.
C4_Claim ==
    (Called /\ (ScoreLayers = {} \/ HopLayers = {}))
        => (err # "none" /\ epoch \notin files)

\* C5 (as claimed): when a call has ended, by returning or by raising, the
\* file it opened is closed.
C5_Claim == Called => ~handle_open

\* C6: the report of a call that succeeds holds one block per instance, in
\* dataset order, that starts with the instance's label and holds one sub-block
\* per option, in option order, showing the option's final score and, when an
\* entailment_scorer output is given, its entailment score, each written with
\* four decimals.
C6_ReportBlocks ==
    CalledOK =>
        \A outs \in {OutputsAt(epoch)} :
        \A labels \in {PlacesOf("Correct answer")} :
        \A options \in {PlacesOf("Option")} :
        \A score \in {Max(ScoreLayers)} :
        \A entailment \in {EntailmentLayers} :
        LET n == Len(dataset)
        IN  /\ Len(labels) = n
            /\ Len(options) = n * num_options
            /\ Cardinality(LinesOf("Assigned score")) = n * num_options
            /\ n > 0 => labels[1] = 1
            /\ \A i \in 1..n :
                /\ report[labels[i]] = <<"Correct answer", dataset[i].label>>
                /\ \A j \in 1..num_options :
                    \A q \in {options[SubBlock(i, j)]} :
                        /\ q > labels[i]
                        /\ i < n => q < labels[i + 1]
                        /\ report[q] = <<"Option", j - 1, dataset[i].options[j].text>>
                        /\ report[q + 1][1] = "Assigned score"
                        /\ IsFmt4(report[q + 1][2], outs[score][i][j])
                        /\ IF entailment # {}
                           THEN /\ report[q + 2][1] = "Entailment score"
                                /\ IsFmt4(report[q + 2][2], outs[Max(entailment)][i][j])
                           ELSE report[q + 2] = <<"Weights on background">>

C6_Witness ==
    /\ CalledOK
    /\ Len(dataset) >= 2 /\ num_options >= 2
    /\ EntailmentLayers # {}
    /\ Cardinality(LinesOf("Entailment score")) = Len(dataset) * num_options
    /\ \E i \in 1..Len(dataset) : dataset[i].label # 0

\* C7: for an option with n background sentences and attention vectors of
\* padded length L, a call that finds its outputs succeeds and writes exactly
\* min(n, L) weight rows; when n <= L row r pairs background sentence r with
\* the weight at position L - n + r of every hop; when n > L the rows are those
\* of the first L sentences.
C7_WeightRows ==
    /\ (Called /\ ScoreLayers # {} /\ HopLayers # {}) => err = "none"
    /\ CalledOK =>
        \A outs \in {OutputsAt(epoch)} :
        \A options \in {PlacesOf("Option")} :
        \A hops \in {HopSeq} :
        \A header \in {IF EntailmentLayers # {} THEN 3 ELSE 2} :
        \A i \in 1..Len(dataset) : \A j \in 1..num_options :
        \A background \in {dataset[i].options[j].background} :
        \A first \in {options[SubBlock(i, j)] + header + 1} :
            LET n == Len(background)
                L == max_knowledge_length
                rows == Min2(n, L)
            IN  /\ report[first - 1] = <<"Weights on background">>
                /\ report[first + rows] = <<"">>
                /\ \A r \in 0..(rows - 1) :
                    \A line \in {report[first + r]} :
                        /\ line[1] = "weights"
                        /\ line[3] = At(background, r)
                        /\ Len(line[2]) = Len(hops)
                        /\ \A h \in 1..Len(hops) :
                            IsFmt4(line[2][h],
                                   At(outs[hops[h]][i][j], IF n <= L THEN L - n + r ELSE r))

C7_Witness ==
    /\ CalledOK
    /\ \E i \in 1..Len(dataset) : \E j \in 1..num_options :
           /\ Len(dataset[i].options[j].background) >= 1
           /\ Len(dataset[i].options[j].background) < max_knowledge_length
    /\ \E i \in 1..Len(dataset) : \E j \in 1..num_options :
           Len(dataset[i].options[j].background) > max_knowledge_length
    /\ LinesOf("weights") # {}

\* C10: each name has at most one role: one ending in 'softmax' is the final
\* score even when it contains 'knowledge_selector'; otherwise one containing
\* 'knowledge_selector' is an attention hop; otherwise 'entailment_scorer' is
\* the entailment score.  Of several 'softmax' names the last is used, without
\* error, and the columns of a weight row are the attention outputs in the
\* order of layer_names, one column each.
C10_Roles ==
    /\ Called => (err = "none" <=> (ScoreLayers # {} /\ HopLayers # {}))
    /\ CalledOK =>
        \A outs \in {OutputsAt(epoch)} :
        \A options \in {PlacesOf("Option")} :
        \A hops \in {HopSeq} :
        \A scores \in {ScoreLayers} :
        /\ (LinesOf("Entailment score") # {})
              <=> (EntailmentLayers # {} /\ Len(dataset) > 0)
        /\ \A i \in 1..Len(dataset) : \A j \in 1..num_options :
            \A q \in {options[SubBlock(i, j)]} :
            \A next \in {IF SubBlock(i, j) < Len(options)
                         THEN options[SubBlock(i, j) + 1] ELSE Len(report) + 1} :
            /\ \A x \in scores :
                   IsFmt4(report[q + 1][2], outs[x][i][j]) <=> x = Max(scores)
            /\ \A p \in (q + 1)..(next - 1) :
                   report[p][1] = "weights"
                   => /\ Len(report[p][2]) = Len(hops)
                      /\ \A h \in 1..Len(hops) :
                             \E c \in 1..max_knowledge_length :
                                 IsFmt4(report[p][2][h], outs[hops[h]][i][j][c])

C10_Witness ==
    /\ CalledOK
    /\ Len(dataset) > 0
    /\ Cardinality(ScoreLayers) >= 2
    /\ layer_names[Max(ScoreLayers)] = KnowledgeSelectorSoftmax
    /\ HopLayers # {} /\ Max(HopLayers) < Max(ScoreLayers)
    /\ LinesOf("weights") # {}
====
